---------------------------- MODULE Spec2Model ----------------------------
(***************************************************************************)
(* Word Synced (in-sync): the session synchronisation engine.              *)
(*                                                                         *)
(* The shared store holds one lobby row, its players and its words.  Every *)
(* client is a mounted Game component: React state (the client's cached    *)
(* copy of the store), the closure the subscription effect captured, and   *)
(* the asynchronous handlers it has in flight.  Every await of a handler   *)
(* is a point where the other clients may run.                             *)
(*                                                                         *)
(* The repository carries two versions of the Game component:              *)
(*   build = "direct": src/src/components/Game.tsx, which resolves a round *)
(*                     with its own updates of lobbies and players;        *)
(*   build = "rpc":    src/unnamed/part_002, which calls the stored        *)
(*                     procedure process_round_completion, re-reads the    *)
(*                     round before a submission and has the round timer.  *)
(***************************************************************************)
EXTENDS Naturals, Integers, Sequences, FiniteSets, Bags, TLC

VARIABLES
  build,      \* which version of the Game component the clients run
  nickname,   \* per client: the prop nickname of its Game component
  lobby,      \* the lobbies row of the session
  players,    \* the players rows of the session: id -> row
  words,      \* the words rows of the session: a bag of [player_id, word, round]
  succ,       \* lobbies rows inserted by createNewLobbyForEveryone: code -> row
  succPlayers,\* players rows of those lobbies: code -> sequence of nicknames
  cPlayers,   \* per client: React state players (the fields the code reads)
  cStatus,    \* per client: React state gameStatus
  cRound,     \* per client: React state currentRound
  cWords,     \* per client: React state allWords
  cMax,       \* per client: React state maxPlayers
  cTimer,     \* per client: React state useTimer
  remainingTime, \* per client: React state remainingTime ({} is null, {n} is n)
  playerLeft, \* per client: React state playerLeft
  clo,        \* per client: what the subscription effect's closure captured
  loc,        \* per client: the lobby code the component is mounted on
  evP,        \* per client: an undelivered change event of table players
  evW,        \* per client: an undelivered change event of table words
  lq,         \* per client: undelivered change events of the lobby row (payloads)
  ph,         \* per client: the playersSubscription handler in flight
  wh,         \* per client: the wordsSubscription handler in flight
  sw,         \* per client: the submitWord call in flight, and its last toast
  fl,         \* per client: the pending 300 ms timeout that follows a successor
  jn          \* per visitor: the JoinLobby form, its call in flight and last toast

vars == <<build, nickname, lobby, players, words, succ, succPlayers, cPlayers, cStatus,
          cRound, cWords, cMax, cTimer, remainingTime, playerLeft, clo, loc,
          evP, evW, lq, ph, wh, sw, fl, jn>>

store  == <<lobby, players, words, succ, succPlayers>>
cache  == <<cPlayers, cStatus, cRound, cWords, cMax, cTimer, remainingTime, playerLeft,
            clo, loc>>

-----------------------------------------------------------------------------
(* Bounds of the model *)

MaxRound   == 3     \* no round beyond this one is opened
MaxWords   == 3     \* words rows of the session
MaxQueue   == 3     \* undelivered lobby events per client
NumCodes   == 2     \* lobby codes generateLobbyCode may draw
LimitRound == 6     \* the last round opened in a game with a round limit

Null == "null"

\* The clients of the session: the players of a lobby created for two.
Clients == {1, 2}

\* The lobby code of the session and the codes a rematch may draw.
LobbyCode == "LOBBY"
NewCodes  == {"NEW" \o ToString(i) : i \in 1..NumCodes}

\* The prop nickname of client c's Game component: the name typed in the
\* form that created or joined the lobby.
Nickname(c) == nickname[c]

\* The names of a game whose players chose different names.
Nicknames == [ c \in Clients |-> IF c = 1 THEN "ann" ELSE "bob" ]

-----------------------------------------------------------------------------
(* Words: text as a sequence of characters; toLowerCase and trim *)

LowerChar(ch) ==
  CASE ch = "A" -> "a"
    [] ch = "B" -> "b"
    [] ch = "C" -> "c"
    [] OTHER    -> ch

toLowerCase(s) == [i \in DOMAIN s |-> LowerChar(s[i])]

RECURSIVE trimStart(_)
trimStart(s) == IF s # <<>> /\ Head(s) = " " THEN trimStart(Tail(s)) ELSE s

RECURSIVE trimEnd(_)
trimEnd(s) ==
  IF s # <<>> /\ s[Len(s)] = " " THEN trimEnd(SubSeq(s, 1, Len(s) - 1)) ELSE s

trim(s) == trimEnd(trimStart(s))

\* const normalizedWord = currentWord.toLowerCase().trim()
normalizedWord(currentWord) == trim(toLowerCase(currentWord))

\* What the players type in the word box.
RawInputs == { <<"a">>, <<"A", " ">>, <<"b">> }

-----------------------------------------------------------------------------
(* The store: rows and change notifications *)

\* CREATE TABLE lobbies: the defaults of a freshly inserted row
\* (round_limit: the empty set is NULL, {n} the integer n).
NewLobbyRow(max, timer) ==
  [ game_status |-> "waiting", current_round |-> 1, winner |-> Null,
    rounds_taken |-> Null, new_lobby_code |-> Null,
    max_players |-> max, use_timer |-> timer, round_limit |-> {} ]

\* CREATE TABLE players: the defaults of a freshly inserted row.
NewPlayerRow(nick) ==
  [ nickname |-> nick, current_word |-> Null, ready |-> FALSE,
    ready_to_start |-> FALSE, wants_to_play_again |-> FALSE ]

\* The fields of a players row a client reads from its cached copy.
CachedPlayers(rows) ==
  [ p \in DOMAIN rows |->
      [ nickname |-> rows[p].nickname, ready |-> rows[p].ready,
        ready_to_start |-> rows[p].ready_to_start,
        wants_to_play_again |-> rows[p].wants_to_play_again ] ]

\* The words rows of one round: data.filter((w) => w.round === currentRound)
currentRoundWords(data, round) ==
  [ w \in { x \in DOMAIN data : x.round = round } |-> data[w] ]

Subscribed(c) == loc[c] = LobbyCode

\* postgres_changes on table players / words: one event per subscribed client.
NotifyPlayers == evP' = [ c \in Clients |-> evP[c] \/ Subscribed(c) ]
NotifyWords   == evW' = [ c \in Clients |-> evW[c] \/ Subscribed(c) ]

\* postgres_changes on the lobby row: payload.new is the row as written (the
\* fields the handler reads).
Payload(row) ==
  [ game_status |-> row.game_status, current_round |-> row.current_round,
    winner |-> row.winner, new_lobby_code |-> row.new_lobby_code ]

CanNotifyLobby == \A c \in Clients : Subscribed(c) => Len(lq[c]) < MaxQueue

NotifyLobby(row) ==
  lq' = [ c \in Clients |->
            IF Subscribed(c) THEN Append(lq[c], Payload(row)) ELSE lq[c] ]

-----------------------------------------------------------------------------
(* React: the subscription effect re-runs when currentRound or             *)
(* players.length changes, and its handlers capture that render's state    *)

Closure(status, max, cached) ==
  [ gameStatus |-> status, maxPlayers |-> max,
    players |-> [ p \in DOMAIN cached |-> cached[p].nickname ] ]

\* useEffect(..., [lobbyCode, currentRound, players.length, nickname, onJoin])
EffectRerun(c, status, round, cached) ==
  clo' = [ clo EXCEPT ![c] =
             IF round # cRound[c]
                \/ Cardinality(DOMAIN cached) # Cardinality(DOMAIN cPlayers[c])
             THEN Closure(status, cMax[c], cached)
             ELSE @ ]

Idle == [ pc |-> "idle" ]

\* part_002: setRemainingTime(30)
TimerDuration == 30

\* part_002, useEffect(..., [currentRound, gameStatus, useTimer]): when one of
\* them changes the cleanup clears the interval, and the effect starts one at
\* TimerDuration if useTimer && gameStatus === 'playing', else sets null.
timerEffect(c, status, round) ==
  remainingTime' = [ remainingTime EXCEPT ![c] =
                       IF status # cStatus[c] \/ round # cRound[c]
                         THEN IF cTimer[c] /\ status = "playing"
                                THEN {TimerDuration} ELSE {}
                       ELSE @ ]

-----------------------------------------------------------------------------
(* submitWord *)

\* The submit button is rendered and enabled:
\* !playerLeft && allPlayersPresent && gameStatus === 'playing', disabled={isReady}
isReady(c) == c \in DOMAIN cPlayers[c] /\ cPlayers[c][c].ready

CanSubmit(c) ==
  /\ Subscribed(c)
  /\ ~playerLeft[c]
  /\ Cardinality(DOMAIN cPlayers[c]) = cMax[c]
  /\ cStatus[c] = "playing"
  /\ ~isReady(c)

\* allWords.some((w) => w.round < round && w.word.toLowerCase() === normalizedWord)
wordUsedInPreviousRounds(allWords, round, word) ==
  \E w \in DOMAIN allWords : w.round < round /\ toLowerCase(w.word) = word

\* supabase.from('words').insert([{ lobby_code, player_id, word, round }])
InsertWord(c, word, round) ==
  /\ words' = words (+) SetToBag({[ player_id |-> c, word |-> word, round |-> round ]})
  /\ NotifyWords

\* part_002: the click reads the latest current_round of the lobby first.
submitWordFetchRound(c, raw) ==
  /\ build = "rpc"
  /\ CanSubmit(c)
  /\ sw[c].pc = "idle"
  /\ trim(raw) # <<>>
  /\ sw' = [ sw EXCEPT ![c] =
               [ pc |-> "check", raw |-> raw, round |-> lobby.current_round ] ]
  /\ UNCHANGED <<jn, build, nickname, store, cache, evP, evW, lq, ph, wh, fl>>

\* The duplicate check against the cached allWords, then the insert.
\* Game.tsx checks and inserts with the cached currentRound, part_002 with
\* the round it has just read.
submitWordAccept(c, raw, round) ==
  /\ ~wordUsedInPreviousRounds(cWords[c], round, normalizedWord(raw))
  /\ InsertWord(c, normalizedWord(raw), round)
  /\ sw' = [ sw EXCEPT ![c] = [ pc |-> "update", raw |-> raw, round |-> round ] ]
  /\ UNCHANGED <<jn, build, nickname, lobby, players, succ, succPlayers, cache, evP, lq, ph, wh, fl>>

\* A submitWord that tests the word after it has inserted the row.
submitWordRejectAfterInsert(c, raw, round) ==
  /\ wordUsedInPreviousRounds(cWords[c], round, normalizedWord(raw))
  /\ InsertWord(c, normalizedWord(raw), round)
  /\ sw' = [ sw EXCEPT ![c] = [ pc |-> "idle", toast |-> "used" ] ]
  /\ UNCHANGED <<jn, build, nickname, lobby, players, succ, succPlayers, cache, evP, lq, ph, wh, fl>>

\* toast.error('This word has been used in a previous round...'); return
submitWordReject(c, raw, round) ==
  /\ wordUsedInPreviousRounds(cWords[c], round, normalizedWord(raw))
  /\ sw' = [ sw EXCEPT ![c] = [ pc |-> "idle", toast |-> "used" ] ]
  /\ UNCHANGED <<jn, build, nickname, store, cache, evP, evW, lq, ph, wh, fl>>

submitWordDirect(c, raw) ==
  /\ build = "direct"
  /\ CanSubmit(c)
  /\ sw[c].pc = "idle"
  /\ trim(raw) # <<>>
  /\ \/ submitWordAccept(c, raw, cRound[c])
     \/ submitWordReject(c, raw, cRound[c])

submitWordCheck(c) ==
  /\ sw[c].pc = "check"
  /\ \/ submitWordAccept(c, sw[c].raw, sw[c].round)
     \/ submitWordReject(c, sw[c].raw, sw[c].round)

\* supabase.from('players').update({ current_word: currentWord, ready: true })
\*   .eq('id', playerId)
submitWordUpdate(c) ==
  /\ sw[c].pc = "update"
  /\ sw' = [ sw EXCEPT ![c] = [ pc |-> "idle", toast |-> "none" ] ]
  /\ IF c \in DOMAIN players
       THEN /\ players' = [ players EXCEPT ![c].current_word = sw[c].raw,
                                           ![c].ready = TRUE ]
            /\ NotifyPlayers
       ELSE UNCHANGED <<players, evP>>
  /\ UNCHANGED <<jn, build, nickname, lobby, words, succ, succPlayers, cache, evW, lq, ph, wh, fl>>

-----------------------------------------------------------------------------
(* wordsSubscription handler *)

\* currentRoundWords.every((w) => w.word.toLowerCase() ===
\*                                currentRoundWords[0].word.toLowerCase())
allWordsMatch(crw) ==
  \A w1, w2 \in DOMAIN crw : toLowerCase(w1.word) = toLowerCase(w2.word)

\* The handler re-fetches the words, stores them in allWords and compares the
\* number of words of the closure's round with the closure's players.length.
wordsSubscriptionFetch(c) ==
  /\ Subscribed(c)
  /\ evW[c]
  /\ wh[c].pc = "idle"
  /\ evW' = [ evW EXCEPT ![c] = FALSE ]
  /\ cWords' = [ cWords EXCEPT ![c] = words ]
  /\ LET crw == currentRoundWords(words, cRound[c])
         n   == BagCardinality(crw)
     IN  IF n # Cardinality(DOMAIN clo[c].players)
           THEN wh' = wh
           ELSE IF build = "direct"
             THEN wh' = [ wh EXCEPT ![c] =
                           [ pc |-> IF allWordsMatch(crw) THEN "finish" ELSE "advance",
                             round |-> cRound[c] ] ]
             ELSE \* currentRoundWords[0] of an empty list throws in the try block
                  IF n = 0
                    THEN wh' = wh
                    ELSE \E first \in DOMAIN crw :
                           wh' = [ wh EXCEPT ![c] =
                                    [ pc |-> "rpc", round |-> cRound[c],
                                      first |-> toLowerCase(first.word) ] ]
  /\ UNCHANGED <<jn, build, nickname, store, cPlayers, cStatus, cRound, cMax, cTimer, remainingTime,
                 playerLeft, clo, loc, evP, lq, ph, sw, fl>>

\* A finish that records the round but no winner.
wordsSubscriptionFinishNoWinner(c) ==
  /\ wh[c].pc = "finish"
  /\ CanNotifyLobby
  /\ lobby' = [ lobby EXCEPT !.game_status = "finished",
                             !.rounds_taken = wh[c].round ]
  /\ NotifyLobby(lobby')
  /\ wh' = [ wh EXCEPT ![c] = Idle ]
  /\ UNCHANGED <<jn, build, nickname, players, words, succ, succPlayers, cache, evP, evW, ph, sw, fl>>

\* Game.tsx: update({ game_status: 'finished', winner: nickname,
\*                    rounds_taken: currentRound }).eq('code', lobbyCode)
wordsSubscriptionFinish(c) ==
  /\ wh[c].pc = "finish"
  /\ CanNotifyLobby
  /\ lobby' = [ lobby EXCEPT !.game_status = "finished",
                             !.winner = Nickname(c),
                             !.rounds_taken = wh[c].round ]
  /\ NotifyLobby(lobby')
  /\ wh' = [ wh EXCEPT ![c] = Idle ]
  /\ UNCHANGED <<jn, build, nickname, players, words, succ, succPlayers, cache, evP, evW, ph, sw, fl>>

\* Game.tsx: update({ current_round: currentRound + 1 }).eq('code', lobbyCode)
\* (took is history: whether the store was still at the closure's round)
wordsSubscriptionAdvance(c) ==
  /\ wh[c].pc = "advance"
  /\ CanNotifyLobby
  /\ lobby' = [ lobby EXCEPT !.current_round = wh[c].round + 1 ]
  /\ NotifyLobby(lobby')
  /\ wh' = [ wh EXCEPT ![c] = [ pc |-> "reset", round |-> wh[c].round,
                                took |-> lobby.current_round = wh[c].round ] ]
  /\ UNCHANGED <<jn, build, nickname, players, words, succ, succPlayers, cache, evP, evW, ph, sw, fl>>

\* update({ ready: false, current_word: null }).eq('lobby_code', lobbyCode)
ResetPlayers(rows) ==
  [ p \in DOMAIN rows |-> [ rows[p] EXCEPT !.ready = FALSE, !.current_word = Null ] ]

\* Game.tsx: the reset of the players rows that follows the round update.
wordsSubscriptionReset(c) ==
  /\ wh[c].pc = "reset"
  /\ players' = ResetPlayers(players)
  /\ IF DOMAIN players # {} THEN NotifyPlayers ELSE UNCHANGED evP
  /\ wh' = [ wh EXCEPT ![c] = Idle ]
  /\ UNCHANGED <<jn, build, nickname, lobby, words, succ, succPlayers, cache, evW, lq, ph, sw, fl>>

\* part_002: supabase.rpc('process_round_completion', { p_lobby_code,
\* p_current_round, p_first_word }).  The procedure is not among the sources;
\* it is the conditional update of spec sections 4.2 and 5: it acts only while
\* the session is still playing round p_current_round, finishes the session
\* when every word of that round equals p_first_word (naming a winner only for
\* two participants) and otherwise opens the next round and clears every
\* participant's submitted flag and word in the same update.
process_round_completion(p_current_round, p_first_word) ==
  LET crw == currentRoundWords(words, p_current_round) IN
  IF lobby.game_status = "playing" /\ lobby.current_round = p_current_round
    THEN IF \A w \in DOMAIN crw : toLowerCase(w.word) = p_first_word
      THEN /\ CanNotifyLobby
           /\ \E win \in IF Cardinality(DOMAIN players) = 2
                           THEN { players[p].nickname : p \in DOMAIN players }
                           ELSE { Null } :
                lobby' = [ lobby EXCEPT !.game_status = "finished",
                                        !.winner = win,
                                        !.rounds_taken = p_current_round ]
           /\ NotifyLobby(lobby')
           /\ UNCHANGED <<players, evP>>
      ELSE /\ CanNotifyLobby
           /\ lobby' = [ lobby EXCEPT !.current_round = p_current_round + 1 ]
           /\ NotifyLobby(lobby')
           /\ players' = ResetPlayers(players)
           /\ IF DOMAIN players # {} THEN NotifyPlayers ELSE UNCHANGED evP
    ELSE UNCHANGED <<lobby, players, evP, lq>>

wordsSubscriptionRpc(c) ==
  /\ wh[c].pc = "rpc"
  /\ process_round_completion(wh[c].round, wh[c].first)
  /\ wh' = [ wh EXCEPT ![c] = Idle ]
  /\ UNCHANGED <<jn, build, nickname, words, succ, succPlayers, cache, evW, ph, sw, fl>>

-----------------------------------------------------------------------------
(* playersSubscription handler *)

\* The handler re-fetches the players, detects a departure against the
\* closure's players.length, stores the rows in players.
playersSubscriptionFetch(c) ==
  /\ Subscribed(c)
  /\ evP[c]
  /\ ph[c].pc = "idle"
  /\ evP' = [ evP EXCEPT ![c] = FALSE ]
  /\ LET updatedPlayers == CachedPlayers(players)
         left == Cardinality(DOMAIN updatedPlayers) < Cardinality(DOMAIN clo[c].players)
     IN  /\ playerLeft' = [ playerLeft EXCEPT ![c] =
                              IF left /\ (build = "direct" \/ clo[c].gameStatus # "waiting")
                                THEN TRUE ELSE @ ]
         /\ cPlayers' = [ cPlayers EXCEPT ![c] = updatedPlayers ]
         /\ EffectRerun(c, cStatus[c], cRound[c], updatedPlayers)
         /\ ph' = [ ph EXCEPT ![c] =
                      [ pc |-> "lobby",
                        length |-> Cardinality(DOMAIN updatedPlayers),
                        allReady |-> \A p \in DOMAIN updatedPlayers :
                                        updatedPlayers[p].ready_to_start,
                        allAgain |-> \A p \in DOMAIN updatedPlayers :
                                        updatedPlayers[p].wants_to_play_again,
                        maxPlayers |-> clo[c].maxPlayers,
                        players |-> clo[c].players ] ]
  /\ UNCHANGED <<jn, build, nickname, store, cStatus, cRound, cWords, cMax, cTimer, remainingTime, loc,
                 evW, lq, wh, sw, fl>>

\* A handler that asks for the new lobby as soon as the game is finished,
\* whether or not every player wants to play again.
playersSubscriptionLobbyAnyPlayer(c) ==
  /\ ph[c].pc = "lobby"
  /\ LET start == /\ lobby.game_status = "waiting"
                  /\ ph[c].length = ph[c].maxPlayers
                  /\ ph[c].allReady
         again == /\ lobby.game_status = "finished"
                  /\ lobby.new_lobby_code = Null
                  /\ ph[c].length > 0
     IN  ph' = [ ph EXCEPT ![c] =
                   IF start THEN [ @ EXCEPT !.pc = "start" ]
                   ELSE IF again THEN [ @ EXCEPT !.pc = "create" ]
                   ELSE Idle ]
  /\ UNCHANGED <<jn, build, nickname, store, cache, evP, evW, lq, wh, sw, fl>>

\* select('game_status, new_lobby_code') of the lobby, then the two tests.
playersSubscriptionLobby(c) ==
  /\ ph[c].pc = "lobby"
  /\ LET start == /\ lobby.game_status = "waiting"
                  /\ ph[c].length = ph[c].maxPlayers
                  /\ ph[c].allReady
         again == /\ lobby.game_status = "finished"
                  /\ lobby.new_lobby_code = Null
                  /\ ph[c].length > 0
                  /\ ph[c].allAgain
     IN  ph' = [ ph EXCEPT ![c] =
                   IF start THEN [ @ EXCEPT !.pc = "start" ]
                   ELSE IF again THEN [ @ EXCEPT !.pc = "create" ]
                   ELSE Idle ]
  /\ UNCHANGED <<jn, build, nickname, store, cache, evP, evW, lq, wh, sw, fl>>

\* update({ game_status: 'playing' }).eq('code', lobbyCode)
playersSubscriptionStart(c) ==
  /\ ph[c].pc = "start"
  /\ CanNotifyLobby
  /\ lobby' = [ lobby EXCEPT !.game_status = "playing" ]
  /\ NotifyLobby(lobby')
  /\ ph' = [ ph EXCEPT ![c] = Idle ]
  /\ UNCHANGED <<jn, build, nickname, players, words, succ, succPlayers, cache, evP, evW, wh, sw, fl>>

-----------------------------------------------------------------------------
(* createNewLobbyForEveryone, called by the playersSubscription handler *)

\* generateLobbyCode(): five random characters; a code may be drawn twice.
generateLobbyCode == NewCodes

\* players.map((p) => ({ lobby_code: newLobbyCode, nickname: p.nickname }))
RECURSIVE newPlayers(_)
newPlayers(ps) ==
  IF DOMAIN ps = {} THEN <<>>
  ELSE LET p == CHOOSE x \in DOMAIN ps : \A y \in DOMAIN ps : x <= y
       IN  <<ps[p]>> \o newPlayers([ q \in DOMAIN ps \ {p} |-> ps[q] ])

\* A createNewLobbyForEveryone that writes new_lobby_code together with the
\* new lobbies row, before the players rows.
createNewLobbyPublishFirst(c) ==
  /\ ph[c].pc = "create"
  /\ CanNotifyLobby
  /\ \E newLobbyCode \in generateLobbyCode :
       IF newLobbyCode \in DOMAIN succ
         THEN /\ ph' = [ ph EXCEPT ![c] = Idle ]
              /\ UNCHANGED <<succ, lobby, lq>>
         ELSE /\ succ' = [ k \in DOMAIN succ \cup {newLobbyCode} |->
                            IF k = newLobbyCode
                              THEN NewLobbyRow(lobby.max_players,
                                     IF build = "rpc" THEN lobby.use_timer ELSE FALSE)
                              ELSE succ[k] ]
              /\ lobby' = [ lobby EXCEPT !.new_lobby_code = newLobbyCode ]
              /\ NotifyLobby(lobby')
              /\ ph' = [ ph EXCEPT ![c] =
                           [ pc |-> "insertPlayers", players |-> ph[c].players,
                             code |-> newLobbyCode ] ]
  /\ UNCHANGED <<jn, build, nickname, players, words, succPlayers, cache, evP, evW, wh, sw, fl>>

\* Steps 1-3: read the old lobby, draw a code, insert the new lobbies row
\* (Game.tsx copies max_players, part_002 max_players and use_timer).
\* A code that is already a primary key makes the insert fail and the
\* function give up.
createNewLobbyInsertLobby(c) ==
  /\ ph[c].pc = "create"
  /\ \E newLobbyCode \in generateLobbyCode :
       IF newLobbyCode \in DOMAIN succ
         THEN /\ ph' = [ ph EXCEPT ![c] = Idle ]
              /\ UNCHANGED succ
         ELSE /\ succ' = [ k \in DOMAIN succ \cup {newLobbyCode} |->
                            IF k = newLobbyCode
                              THEN NewLobbyRow(lobby.max_players,
                                     IF build = "rpc" THEN lobby.use_timer ELSE FALSE)
                              ELSE succ[k] ]
              /\ ph' = [ ph EXCEPT ![c] =
                           [ pc |-> "insertPlayers", players |-> ph[c].players,
                             code |-> newLobbyCode ] ]
  /\ UNCHANGED <<jn, build, nickname, lobby, players, words, succPlayers, cache, evP, evW, lq, wh, sw, fl>>

\* Step 4: insert one players row per player of the closure's players list.
createNewLobbyInsertPlayers(c) ==
  /\ ph[c].pc = "insertPlayers"
  /\ succPlayers' = [ k \in DOMAIN succPlayers \cup {ph[c].code} |->
                        IF k = ph[c].code THEN newPlayers(ph[c].players)
                        ELSE succPlayers[k] ]
  /\ ph' = [ ph EXCEPT ![c] = [ pc |-> "publish", code |-> ph[c].code ] ]
  /\ UNCHANGED <<jn, build, nickname, lobby, players, words, succ, cache, evP, evW, lq, wh, sw, fl>>

\* Step 5: update({ new_lobby_code: newLobbyCode }).eq('code', lobbyCode)
createNewLobbyPublish(c) ==
  /\ ph[c].pc = "publish"
  /\ CanNotifyLobby
  /\ lobby' = [ lobby EXCEPT !.new_lobby_code = ph[c].code ]
  /\ NotifyLobby(lobby')
  /\ ph' = [ ph EXCEPT ![c] = Idle ]
  /\ UNCHANGED <<jn, build, nickname, players, words, succ, succPlayers, cache, evP, evW, wh, sw, fl>>

-----------------------------------------------------------------------------
(* lobbySubscription handler *)

\* setGameStatus(payload.new.game_status); setCurrentRound(payload.new.current_round);
\* a payload with new_lobby_code arms the 300 ms timeout that follows it.
lobbySubscription(c) ==
  /\ Subscribed(c)
  /\ lq[c] # <<>>
  /\ LET payload == Head(lq[c]) IN
       /\ cStatus' = [ cStatus EXCEPT ![c] = payload.game_status ]
       /\ cRound' = [ cRound EXCEPT ![c] = payload.current_round ]
       /\ EffectRerun(c, payload.game_status, payload.current_round, cPlayers[c])
       /\ timerEffect(c, payload.game_status, payload.current_round)
       /\ fl' = [ fl EXCEPT ![c] =
                    IF payload.new_lobby_code # Null THEN payload.new_lobby_code ELSE @ ]
  /\ lq' = [ lq EXCEPT ![c] = Tail(@) ]
  /\ UNCHANGED <<jn, build, nickname, store, cPlayers, cWords, cMax, cTimer, playerLeft, loc,
                 evP, evW, ph, wh, sw>>

\* from('players').select('id').eq('lobby_code', newCode).eq('nickname', nickname)
\*   .single(): a row only when exactly one row matches; then onJoin(newCode, ...)
\* mounts the component on the new lobby and the old subscriptions end.
followNewLobby(c) ==
  /\ fl[c] # Null
  /\ fl' = [ fl EXCEPT ![c] = Null ]
  /\ LET newCode == fl[c]
         rows  == IF newCode \in DOMAIN succPlayers THEN succPlayers[newCode] ELSE <<>>
         found == { i \in DOMAIN rows : rows[i] = Nickname(c) }
     IN  IF Cardinality(found) = 1 /\ Subscribed(c)
           THEN /\ loc' = [ loc EXCEPT ![c] = newCode ]
                /\ evP' = [ evP EXCEPT ![c] = FALSE ]
                /\ evW' = [ evW EXCEPT ![c] = FALSE ]
                /\ lq' = [ lq EXCEPT ![c] = <<>> ]
                /\ remainingTime' = [ remainingTime EXCEPT ![c] = {} ]
           ELSE UNCHANGED <<loc, evP, evW, lq, remainingTime>>
  /\ UNCHANGED <<jn, build, nickname, store, cPlayers, cStatus, cRound, cWords, cMax,
                 cTimer, playerLeft, clo, ph, wh, sw>>

-----------------------------------------------------------------------------
(* Buttons and the round timer *)

\* Game.tsx renders the button when allPlayersPresent, part_002 when
\* players.length >= 2; update({ ready_to_start: true }).eq('id', playerId)
handleReadyToStart(c) ==
  /\ Subscribed(c)
  /\ ~playerLeft[c]
  /\ cStatus[c] = "waiting"
  /\ IF build = "direct"
       THEN Cardinality(DOMAIN cPlayers[c]) = cMax[c]
       ELSE Cardinality(DOMAIN cPlayers[c]) >= 2
  /\ ~(c \in DOMAIN cPlayers[c] /\ cPlayers[c][c].ready_to_start)
  /\ c \in DOMAIN players
  /\ players' = [ players EXCEPT ![c].ready_to_start = TRUE ]
  /\ NotifyPlayers
  /\ UNCHANGED <<jn, build, nickname, lobby, words, succ, succPlayers, cache, evW, lq, ph, wh, sw, fl>>

\* update({ wants_to_play_again: true }).eq('id', playerId)
handlePlayAgain(c) ==
  /\ Subscribed(c)
  /\ ~playerLeft[c]
  /\ cStatus[c] = "finished"
  /\ ~(c \in DOMAIN cPlayers[c] /\ cPlayers[c][c].wants_to_play_again)
  /\ c \in DOMAIN players
  /\ players' = [ players EXCEPT ![c].wants_to_play_again = TRUE ]
  /\ NotifyPlayers
  /\ UNCHANGED <<jn, build, nickname, lobby, words, succ, succPlayers, cache, evW, lq, ph, wh, sw, fl>>

\* JoinLobby (part_002): the visitor of the join form.  Its players row gets
\* the id Joiner; the codes it can type are EnteredCodes.
Joiner == 3
JoinerNickname == "cat"

\* The visitors that may have the join form open, and the names they type.
Visitors == {Joiner, 4}
VisitorNickname(v) == IF v = Joiner THEN JoinerNickname ELSE "dan"
EnteredCodes == {"", "lobby", "LOBBY", "zzzzz"}

\* lobbyCode.toUpperCase() on the codes that can be typed.
toUpperCase(lobbyCode) ==
  IF lobbyCode = "lobby" THEN "LOBBY"
  ELSE IF lobbyCode = "zzzzz" THEN "ZZZZZ"
  ELSE lobbyCode

\* select('code, max_players, players!inner(*)').eq('code', code).single():
\* the lobby with its players rows, or nothing when the code is unknown or the
\* lobby has no players row (inner join).
JoinSelect(code) ==
  IF code = LobbyCode /\ DOMAIN players # {}
    THEN { [ max_players |-> lobby.max_players,
             length |-> Cardinality(DOMAIN players) ] }
  ELSE IF code \in DOMAIN succ /\ code \in DOMAIN succPlayers /\ succPlayers[code] # <<>>
    THEN { [ max_players |-> succ[code].max_players,
             length |-> Len(succPlayers[code]) ] }
  ELSE {}

\* A handleJoin that lets a visitor in as long as the lobby is not over its
\* capacity.
handleJoinOverCapacity(v, lobbyCode) ==
  /\ jn[v].pc = "idle"
  /\ v \notin DOMAIN players
  /\ LET code == toUpperCase(lobbyCode)
         found == JoinSelect(code)
     IN  jn' = [ jn EXCEPT ![v] =
               IF lobbyCode = ""
                 THEN [ pc |-> "idle", code |-> code, toast |-> "fields" ]
               ELSE IF found = {}
                 THEN [ pc |-> "idle", code |-> code, toast |-> "notfound" ]
               ELSE IF \E l \in found : l.length > l.max_players
                 THEN [ pc |-> "idle", code |-> code, toast |-> "full" ]
               ELSE [ pc |-> "insert", code |-> code, toast |-> "none" ] ]
  /\ UNCHANGED <<build, nickname, store, cache, evP, evW, lq, ph, wh, sw, fl>>

\* handleJoin up to the insert: the empty-field test, the select and its two
\* tests.
handleJoin(v, lobbyCode) ==
  /\ jn[v].pc = "idle"
  /\ v \notin DOMAIN players
  /\ LET code == toUpperCase(lobbyCode)
         found == JoinSelect(code)
     IN  jn' = [ jn EXCEPT ![v] =
               IF lobbyCode = ""
                 THEN [ pc |-> "idle", code |-> code, toast |-> "fields" ]
               ELSE IF found = {}
                 THEN [ pc |-> "idle", code |-> code, toast |-> "notfound" ]
               ELSE IF \E l \in found : l.length >= l.max_players
                 THEN [ pc |-> "idle", code |-> code, toast |-> "full" ]
               ELSE [ pc |-> "insert", code |-> code, toast |-> "none" ] ]
  /\ UNCHANGED <<build, nickname, store, cache, evP, evW, lq, ph, wh, sw, fl>>

\* The insert of the visitor's players row, onJoin and the success toast.
handleJoinInsert(v) ==
  /\ jn[v].pc = "insert"
  /\ IF jn[v].code = LobbyCode
       THEN /\ players' = [ p \in DOMAIN players \cup {v} |->
                              IF p = v THEN NewPlayerRow(VisitorNickname(v))
                              ELSE players[p] ]
            /\ NotifyPlayers
            /\ UNCHANGED succPlayers
       ELSE /\ succPlayers' = [ succPlayers EXCEPT
                                  ![jn[v].code] = Append(@, VisitorNickname(v)) ]
            /\ UNCHANGED <<players, evP>>
  /\ jn' = [ jn EXCEPT ![v] = [ pc |-> "joined", code |-> jn[v].code, toast |-> "joined" ] ]
  /\ UNCHANGED <<build, nickname, lobby, words, succ, cache, evW, lq, ph, wh, sw, fl>>

\* Game.tsx submitWord of the visitor once it has joined and the game is
\* being played.  Its component holds the state it loaded when it was mounted
\* (round 1, no word); none of its subscription events is delivered.
submitWordJoiner(raw) ==
  /\ jn[Joiner].pc = "joined"
  /\ jn[Joiner].code = LobbyCode
  /\ Joiner \in DOMAIN players
  /\ trim(raw) # <<>>
  /\ InsertWord(Joiner, normalizedWord(raw), 1)
  /\ jn' = [ jn EXCEPT ![Joiner] = [ pc |-> "update", code |-> @.code, toast |-> @.toast,
                                     raw |-> raw ] ]
  /\ UNCHANGED <<build, nickname, lobby, players, succ, succPlayers, cache, evP, lq, ph, wh, sw, fl>>

\* update({ current_word: currentWord, ready: true }).eq('id', playerId)
submitWordJoinerUpdate ==
  /\ jn[Joiner].pc = "update"
  /\ jn' = [ jn EXCEPT ![Joiner] = [ pc |-> "submitted", code |-> @.code,
                                     toast |-> @.toast ] ]
  /\ IF Joiner \in DOMAIN players
       THEN /\ players' = [ players EXCEPT ![Joiner].current_word = jn[Joiner].raw,
                                           ![Joiner].ready = TRUE ]
            /\ NotifyPlayers
       ELSE UNCHANGED <<players, evP>>
  /\ UNCHANGED <<build, nickname, lobby, words, succ, succPlayers, cache, evW, lq, ph, wh, sw, fl>>

\* The words rows a deleted players row takes with it
\* (player_id uuid REFERENCES players(id) ON DELETE CASCADE).
WordsWithout(c) ==
  [ w \in { x \in DOMAIN words : x.player_id # c } |-> words[w] ]

\* An exit that also ends the game.
handleExitEndsGame(c) ==
  /\ Subscribed(c)
  /\ c \in DOMAIN players
  /\ players' = [ p \in DOMAIN players \ {c} |-> players[p] ]
  /\ words' = WordsWithout(c)
  /\ loc' = [ loc EXCEPT ![c] = "menu" ]
  /\ evP' = [ d \in Clients |-> d # c /\ (evP[d] \/ Subscribed(d)) ]
  /\ \E notified \in IF words' # words THEN BOOLEAN ELSE {FALSE} :
       evW' = [ d \in Clients |-> d # c /\ (evW[d] \/ (notified /\ Subscribed(d))) ]
  /\ lobby' = [ lobby EXCEPT !.game_status = "finished" ]
  /\ lq' = [ lq EXCEPT ![c] = <<>> ]
  /\ fl' = [ fl EXCEPT ![c] = Null ]
  /\ remainingTime' = [ remainingTime EXCEPT ![c] = {} ]
  /\ UNCHANGED <<jn, build, nickname, succ, succPlayers, cPlayers, cStatus, cRound,
                 cWords, cMax, cTimer, playerLeft, clo, ph, wh, sw>>

\* from('players').delete().eq('id', playerId), then onExit() unmounts the
\* component: its subscriptions end and the cleanup of the timer effect clears
\* the interval; the handlers it has in flight run on.
\* Whether the clients are sent the DELETE events of the cascaded words rows
\* depends on the replication settings of the table.
handleExit(c) ==
  /\ Subscribed(c)
  /\ c \in DOMAIN players
  /\ players' = [ p \in DOMAIN players \ {c} |-> players[p] ]
  /\ words' = WordsWithout(c)
  /\ loc' = [ loc EXCEPT ![c] = "menu" ]
  /\ evP' = [ d \in Clients |-> d # c /\ (evP[d] \/ Subscribed(d)) ]
  /\ \E notified \in IF words' # words THEN BOOLEAN ELSE {FALSE} :
       evW' = [ d \in Clients |-> d # c /\ (evW[d] \/ (notified /\ Subscribed(d))) ]
  /\ lq' = [ lq EXCEPT ![c] = <<>> ]
  /\ fl' = [ fl EXCEPT ![c] = Null ]
  /\ remainingTime' = [ remainingTime EXCEPT ![c] = {} ]
  /\ UNCHANGED <<jn, build, nickname, lobby, succ, succPlayers, cPlayers, cStatus, cRound,
                 cWords, cMax, cTimer, playerLeft, clo, ph, wh, sw>>

\* A timer that also clears the winner when it ends the game.
endGameDueToTimerClearsWinner(c) ==
  /\ build = "rpc"
  /\ Subscribed(c)
  /\ cTimer[c]
  /\ cStatus[c] = "playing"
  /\ remainingTime[c] # {}
  /\ CanNotifyLobby
  /\ lobby' = [ lobby EXCEPT !.game_status = "finished", !.winner = Null ]
  /\ NotifyLobby(lobby')
  /\ remainingTime' = [ remainingTime EXCEPT ![c] = {} ]
  /\ UNCHANGED <<jn, build, nickname, players, words, succ, succPlayers, cPlayers, cStatus,
                 cRound, cWords, cMax, cTimer, playerLeft, clo, loc, evP, evW, ph, wh,
                 sw, fl>>

\* part_002: the interval of the timer effect runs while useTimer and
\* gameStatus === 'playing'; when it has run out it is cleared, remainingTime
\* becomes null and endGameDueToTimer():
\* update({ game_status: 'finished' }).eq('code', lobbyCode)
endGameDueToTimer(c) ==
  /\ build = "rpc"
  /\ Subscribed(c)
  /\ cTimer[c]
  /\ cStatus[c] = "playing"
  /\ remainingTime[c] # {}
  /\ CanNotifyLobby
  /\ lobby' = [ lobby EXCEPT !.game_status = "finished" ]
  /\ NotifyLobby(lobby')
  /\ remainingTime' = [ remainingTime EXCEPT ![c] = {} ]
  /\ UNCHANGED <<jn, build, nickname, players, words, succ, succPlayers, cPlayers, cStatus,
                 cRound, cWords, cMax, cTimer, playerLeft, clo, loc, evP, evW, ph, wh,
                 sw, fl>>

\* One second of the interval: setRemainingTime((prevTime) => ...), which
\* counts down and at prevTime <= 1 ends the game.
timerInterval(c) ==
  /\ Subscribed(c)
  /\ \E prevTime \in remainingTime[c] :
       IF prevTime <= 1
         THEN endGameDueToTimer(c)
         ELSE /\ remainingTime' = [ remainingTime EXCEPT ![c] = {prevTime - 1} ]
              /\ UNCHANGED <<jn, build, nickname, store, cPlayers, cStatus, cRound, cWords,
                             cMax, cTimer, playerLeft, clo, loc, evP, evW, lq, ph, wh,
                             sw, fl>>

-----------------------------------------------------------------------------
(* Initial states and specifications *)

\* A client whose fetchInitialData has completed on the rows given.
ClientsInSync(row, rows, closureStatus) ==
  /\ cPlayers = [ c \in Clients |-> CachedPlayers(rows) ]
  /\ cStatus = [ c \in Clients |-> row.game_status ]
  /\ cRound = [ c \in Clients |-> row.current_round ]
  /\ cWords = [ c \in Clients |-> EmptyBag ]
  /\ cMax = [ c \in Clients |-> row.max_players ]
  /\ cTimer = [ c \in Clients |-> row.use_timer ]
  /\ remainingTime = [ c \in Clients |->
                         IF row.use_timer /\ row.game_status = "playing"
                           THEN {TimerDuration} ELSE {} ]
  /\ playerLeft = [ c \in Clients |-> FALSE ]
  /\ clo = [ c \in Clients |->
               Closure(closureStatus, row.max_players, CachedPlayers(rows)) ]
  /\ loc = [ c \in Clients |-> LobbyCode ]
  /\ evP = [ c \in Clients |-> FALSE ]
  /\ evW = [ c \in Clients |-> FALSE ]
  /\ lq = [ c \in Clients |-> <<>> ]
  /\ ph = [ c \in Clients |-> Idle ]
  /\ wh = [ c \in Clients |-> Idle ]
  /\ sw = [ c \in Clients |-> [ pc |-> "idle", toast |-> "none" ] ]
  /\ fl = [ c \in Clients |-> Null ]

\* The join form of the visitor before its first attempt.
NoVisitor == jn = [ v \in Visitors |-> [ pc |-> "idle", code |-> Null, toast |-> "none" ] ]

\* The options of the Round Limit select of CreateLobby (0 is "no limit").
RoundLimits == {0, 5}

\* The lobby was created for two players (CreateLobby.handleCreate), the
\* other joined (JoinLobby.handleJoin) and every client has loaded the rows.
Init ==
  /\ build \in {"direct", "rpc"}
  /\ nickname = Nicknames
  /\ \E timer \in IF build = "rpc" THEN BOOLEAN ELSE {FALSE}, roundLimit \in RoundLimits :
       lobby = [ NewLobbyRow(Cardinality(Clients), timer) EXCEPT !.round_limit = {roundLimit} ]
  /\ players = [ c \in Clients |-> NewPlayerRow(Nickname(c)) ]
  /\ words = EmptyBag
  /\ succ = << >>
  /\ succPlayers = << >>
  /\ ClientsInSync(lobby, players, "waiting")
  /\ NoVisitor

\* The same session once every player pressed Ready and a client's
\* playersSubscription handler set the status to 'playing': round 1, no word
\* submitted yet, every event delivered.  The closures date from the last
\* change of players.length, when the status was still 'waiting'.
InitPlaying ==
  /\ build \in {"direct", "rpc"}
  /\ nickname = Nicknames
  /\ lobby = [ NewLobbyRow(Cardinality(Clients), FALSE) EXCEPT !.game_status = "playing",
                                                              !.round_limit = {0} ]
  /\ players = [ c \in Clients |->
                   [ NewPlayerRow(Nickname(c)) EXCEPT !.ready_to_start = TRUE ] ]
  /\ words = EmptyBag
  /\ succ = << >>
  /\ succPlayers = << >>
  /\ ClientsInSync(lobby, players, "waiting")
  /\ NoVisitor

InitDirect == InitPlaying /\ build = "direct"

-----------------------------------------------------------------------------
(* Bounds and scheduling of the specifications *)

WordsLeft == BagCardinality(words) < MaxWords

\* The resolution client c has in flight would open the next round.
Advances(c) ==
  \/ wh[c].pc = "advance"
  \/ /\ wh[c].pc = "rpc"
     /\ lobby.game_status = "playing"
     /\ lobby.current_round = wh[c].round
     /\ \E w \in DOMAIN currentRoundWords(words, wh[c].round) :
          toLowerCase(w.word) # wh[c].first

RoundsLeft(c) == Advances(c) => wh[c].round < MaxRound

\* What a client does by itself: the events it receives and the handlers
\* it has in flight.
Reacts(c) ==
  \/ playersSubscriptionFetch(c)
  \/ playersSubscriptionLobby(c)
  \/ playersSubscriptionStart(c)
  \/ createNewLobbyInsertLobby(c)
  \/ createNewLobbyInsertPlayers(c)
  \/ createNewLobbyPublish(c)
  \/ lobbySubscription(c)
  \/ followNewLobby(c)
  \/ wordsSubscriptionFetch(c)
  \/ wordsSubscriptionFinish(c)
  \/ RoundsLeft(c) /\ wordsSubscriptionAdvance(c)
  \/ wordsSubscriptionReset(c)
  \/ RoundsLeft(c) /\ wordsSubscriptionRpc(c)
  \/ WordsLeft /\ submitWordCheck(c)
  \/ submitWordUpdate(c)

\* Scheduling: client 1 is arbitrarily slow (its events are delivered late and
\* its handlers stay suspended at an await for as long as the others run); the
\* other clients handle what they receive at once, and their users act when
\* nothing is left to handle.
Quiet == \A d \in Clients \ {1} : ~ENABLED Reacts(d)

Turn(c) == c = 1 => Quiet

\* The words typed in a game in which nobody repeats or matches a word.
FreshWord(c) ==
  IF c = 1 THEN (IF cRound[c] = 1 THEN <<"a">> ELSE <<"c">>)
           ELSE (IF cRound[c] = 1 THEN <<"b">> ELSE <<"d">>)

\* What every client does with the events it receives.
Handlers(c) ==
  \/ playersSubscriptionFetch(c)
  \/ playersSubscriptionLobby(c)
  \/ lobbySubscription(c)
  \/ wordsSubscriptionFetch(c)
  \/ submitWordUpdate(c)

\* Fewer words rows than the rounds before MaxRound take.
FullRoundsLeft == BagCardinality(words) < Cardinality(Clients) * (MaxRound - 1)

\* Game.tsx, a game without a match.
NextRound ==
  \/ \E c \in Clients : Turn(c) /\ Handlers(c)
  \/ \E c \in Clients : Quiet /\ FullRoundsLeft /\ submitWordDirect(c, FreshWord(c))
  \/ \E c \in Clients : Turn(c) /\ RoundsLeft(c) /\ wordsSubscriptionAdvance(c)
  \/ \E c \in Clients : Turn(c) /\ wordsSubscriptionReset(c)

SpecRound == InitDirect /\ [][NextRound]_vars

\* Game.tsx, the players type any of RawInputs.
NextPlayDirect ==
  \/ \E c \in Clients : Turn(c) /\ Handlers(c)
  \/ \E c \in Clients, raw \in RawInputs :
       Quiet /\ WordsLeft /\ submitWordDirect(c, raw)
  \/ \E c \in Clients : Turn(c) /\ wordsSubscriptionFinish(c)
  \/ \E c \in Clients : Turn(c) /\ RoundsLeft(c) /\ wordsSubscriptionAdvance(c)
  \/ \E c \in Clients : Turn(c) /\ wordsSubscriptionReset(c)

SpecPlayDirect == InitDirect /\ [][NextPlayDirect]_vars

\* part_002, the players type any of RawInputs.
NextPlayRpc ==
  \/ \E c \in Clients : Turn(c) /\ Handlers(c)
  \/ \E c \in Clients, raw \in RawInputs : Quiet /\ submitWordFetchRound(c, raw)
  \/ \E c \in Clients : Turn(c) /\ WordsLeft /\ submitWordCheck(c)
  \/ \E c \in Clients : Turn(c) /\ RoundsLeft(c) /\ wordsSubscriptionRpc(c)

\* Both versions of the component.
SpecPlay == InitPlaying /\ [][NextPlayDirect \/ NextPlayRpc]_vars

\* At most as many words rows as players.
OneWordEach == BagCardinality(words) < Cardinality(Clients)

\* No client has an event to receive or a handler in flight.
Settled == \A d \in Clients : ~ENABLED Reacts(d)

\* A whole session of either version in which every player types "a": the
\* players press Ready, the game starts, the words match (or the timer of
\* part_002 runs out), the players ask for a rematch (or leave the finished
\* game) and follow the new lobby.
\* The handlers of the clients interleave freely at their awaits; the users
\* act when every client has handled what it received.
NextSession ==
  \/ \E c \in Clients : Handlers(c)
  \/ \E c \in Clients : Settled /\ handleReadyToStart(c)
  \/ \E c \in Clients : playersSubscriptionStart(c)
  \/ \E c \in Clients : Settled /\ OneWordEach /\ submitWordDirect(c, <<"a">>)
  \/ \E c \in Clients : Settled /\ submitWordFetchRound(c, <<"a">>)
  \/ \E c \in Clients : OneWordEach /\ submitWordCheck(c)
  \/ \E c \in Clients : wordsSubscriptionFinish(c)
  \/ \E c \in Clients : RoundsLeft(c) /\ wordsSubscriptionRpc(c)
  \/ \E c \in Clients : endGameDueToTimer(c)
  \/ \E c \in Clients : Settled /\ handlePlayAgain(c)
  \/ \E c \in Clients : Settled /\ lobby.game_status = "finished" /\ handleExit(c)
  \/ \E c \in Clients : createNewLobbyInsertLobby(c)
  \/ \E c \in Clients : createNewLobbyInsertPlayers(c)
  \/ \E c \in Clients : createNewLobbyPublish(c)
  \/ \E c \in Clients : followNewLobby(c)

SpecSession == Init /\ [][NextSession]_vars

\* The word each player keeps typing in a game without scheduling
\* assumptions.
OwnWord(c) == IF c = 1 THEN <<"a">> ELSE <<"b">>

\* Game.tsx, player 1 types "a" and player 2 types "b"; clicks, events and the
\* awaits of the handlers interleave freely.
NextRace ==
  \/ \E c \in Clients : Handlers(c)
  \/ \E c \in Clients : WordsLeft /\ submitWordDirect(c, OwnWord(c))
  \/ \E c \in Clients : wordsSubscriptionFinish(c)
  \/ \E c \in Clients : RoundsLeft(c) /\ wordsSubscriptionAdvance(c)
  \/ \E c \in Clients : wordsSubscriptionReset(c)

SpecRace == InitDirect /\ [][NextRace]_vars

\* Either version; a player may leave while the game is being played.
NextLeave ==
  \/ \E c \in Clients : Turn(c) /\ Handlers(c)
  \/ \E c \in Clients : Quiet /\ WordsLeft /\ submitWordDirect(c, OwnWord(c))
  \/ \E c \in Clients : Quiet /\ submitWordFetchRound(c, OwnWord(c))
  \/ \E c \in Clients : Turn(c) /\ WordsLeft /\ submitWordCheck(c)
  \/ \E c \in Clients : Turn(c) /\ wordsSubscriptionFinish(c)
  \/ \E c \in Clients : Turn(c) /\ RoundsLeft(c) /\ wordsSubscriptionAdvance(c)
  \/ \E c \in Clients : Turn(c) /\ wordsSubscriptionReset(c)
  \/ \E c \in Clients : Turn(c) /\ RoundsLeft(c) /\ wordsSubscriptionRpc(c)
  \/ \E c \in Clients : Quiet /\ lobby.game_status = "playing" /\ handleExit(c)

SpecLeave == InitPlaying /\ [][NextLeave]_vars

\* The waiting room with a visitor at the join form: the players press Ready
\* or Exit, the visitor types a code and presses Join, every handler runs
\* whenever it can.
NextJoin ==
  \/ \E c \in Clients : playersSubscriptionFetch(c)
  \/ \E c \in Clients : playersSubscriptionLobby(c)
  \/ \E c \in Clients : playersSubscriptionStart(c)
  \/ \E c \in Clients : lobbySubscription(c)
  \/ \E c \in Clients : handleReadyToStart(c)
  \/ \E c \in Clients : handleExit(c)
  \/ \E lobbyCode \in EnteredCodes : handleJoin(Joiner, lobbyCode)
  \/ handleJoinInsert(Joiner)

SpecJoin == Init /\ [][NextJoin]_vars

\* A session created with the Round Limit option "5 Rounds", once it is
\* being played.
InitLimit ==
  /\ build = "direct"
  /\ nickname = Nicknames
  /\ lobby = [ NewLobbyRow(Cardinality(Clients), FALSE) EXCEPT !.game_status = "playing",
                                                              !.round_limit = {5} ]
  /\ players = [ c \in Clients |->
                   [ NewPlayerRow(Nickname(c)) EXCEPT !.ready_to_start = TRUE ] ]
  /\ words = EmptyBag
  /\ succ = << >>
  /\ succPlayers = << >>
  /\ ClientsInSync(lobby, players, "waiting")
  /\ NoVisitor

\* The word player c types in round r: r times its own letter.
RoundWord(c, r) == [ i \in 1..r |-> IF c = 1 THEN "a" ELSE "b" ]

\* A round advance while the game with a round limit goes on.
LimitAdvance(c) ==
  /\ wh[c].pc = "advance"
  /\ wh[c].round < LimitRound
  /\ wordsSubscriptionAdvance(c)

\* What a client does by itself in that game.
LimitReacts(c) ==
  \/ Handlers(c)
  \/ LimitAdvance(c)
  \/ wordsSubscriptionReset(c)

LimitQuiet == \A d \in Clients \ {1} : ~ENABLED LimitReacts(d)

LimitSettled == \A d \in Clients : ~ENABLED LimitReacts(d)

\* Game.tsx, a game with a round limit in which no two words ever match
\* (client 1 slow, the others prompt; the players type when every client has
\* handled what it received).
NextLimit ==
  \/ \E c \in Clients : (c = 1 => LimitQuiet) /\ Handlers(c)
  \/ \E c \in Clients : LimitSettled /\ submitWordDirect(c, RoundWord(c, cRound[c]))
  \/ \E c \in Clients : (c = 1 => LimitQuiet) /\ LimitAdvance(c)
  \/ \E c \in Clients : (c = 1 => LimitQuiet) /\ wordsSubscriptionReset(c)

SpecLimit == InitLimit /\ [][NextLimit]_vars

\* A lobby created for three players: ann and bob run the clients of the
\* model, the visitor cat has joined as the third; every player pressed Ready
\* and the game is being played, round 1, no word submitted yet.
InitThree ==
  /\ build = "direct"
  /\ nickname = Nicknames
  /\ lobby = [ NewLobbyRow(Cardinality(Clients) + 1, FALSE) EXCEPT
                 !.game_status = "playing", !.round_limit = {0} ]
  /\ players = [ p \in Clients \cup {Joiner} |->
                   [ NewPlayerRow(IF p = Joiner THEN JoinerNickname ELSE Nickname(p))
                       EXCEPT !.ready_to_start = TRUE ] ]
  /\ words = EmptyBag
  /\ succ = << >>
  /\ succPlayers = << >>
  /\ ClientsInSync(lobby, players, "waiting")
  /\ jn = [ v \in Visitors |->
            IF v = Joiner THEN [ pc |-> "joined", code |-> LobbyCode, toast |-> "joined" ]
            ELSE [ pc |-> "idle", code |-> Null, toast |-> "none" ] ]

\* One word per player of the game of three.
OneWordOfThree == BagCardinality(words) < Cardinality(Clients) + 1

\* Game.tsx, three players who all type "a"; clicks, events and the awaits of
\* the handlers interleave freely.
NextThree ==
  \/ \E c \in Clients : Handlers(c)
  \/ \E c \in Clients : OneWordOfThree /\ submitWordDirect(c, <<"a">>)
  \/ OneWordOfThree /\ submitWordJoiner(<<"a">>)
  \/ submitWordJoinerUpdate
  \/ \E c \in Clients : wordsSubscriptionFinish(c)

SpecThree == InitThree /\ [][NextThree]_vars

\* What a client does by itself, but for the write of 'playing' that its
\* playersSubscription handler may still have to send.
ReactsButStart(c) ==
  \/ Handlers(c)
  \/ wordsSubscriptionFinish(c)
  \/ RoundsLeft(c) /\ wordsSubscriptionRpc(c)
  \/ OneWordEach /\ submitWordCheck(c)

\* Every client has handled what it received; a handler may be suspended
\* between its read of the lobby and its write of 'playing'.
Calm == \A d \in Clients : ~ENABLED ReactsButStart(d)

\* The start of a game of either version and its first round, in which every
\* player types "a".  The write of 'playing' of a handler may arrive at any
\* time; the players act when the clients are calm.
NextStart ==
  \/ \E c \in Clients : Handlers(c)
  \/ \E c \in Clients : Settled /\ handleReadyToStart(c)
  \/ \E c \in Clients : playersSubscriptionStart(c)
  \/ \E c \in Clients : Calm /\ OneWordEach /\ submitWordDirect(c, <<"a">>)
  \/ \E c \in Clients : Calm /\ submitWordFetchRound(c, <<"a">>)
  \/ \E c \in Clients : OneWordEach /\ submitWordCheck(c)
  \/ \E c \in Clients : wordsSubscriptionFinish(c)
  \/ \E c \in Clients : RoundsLeft(c) /\ wordsSubscriptionRpc(c)

SpecStart == Init /\ [][NextStart]_vars

\* A timed game of part_002 from the waiting room on.
InitTimer == Init /\ build = "rpc" /\ lobby.use_timer /\ lobby.round_limit = {0}

\* The words typed in a timed game: player 1 types a new word in every round,
\* player 2 a new word of its own or the word player 1 types in that round
\* (the game goes on until every player has a words row).
TimerWords(c) ==
  IF c = 1 THEN { FreshWord(1) }
  ELSE { FreshWord(2), IF cRound[c] = 1 THEN <<"a">> ELSE <<"c">> }

\* Scheduling of the timed game: client 1 is arbitrarily slow; client 2
\* handles what it receives at once, but its write of 'playing' may stay
\* suspended.
TimerQuiet == \A d \in Clients \ {1} : ~ENABLED ReactsButStart(d)

TimerTurn(c) == c = 1 => TimerQuiet

\* A timed game of part_002.  The handlers run within a second: the players
\* act and an interval ticks when the clients are calm.  The interval of
\* client 1 runs; the intervals of the other clients are held back for the
\* whole game (timers of a tab in the background).
NextTimer ==
  \/ \E c \in Clients : TimerTurn(c) /\ Handlers(c)
  \/ \E c \in Clients : Settled /\ handleReadyToStart(c)
  \/ \E c \in Clients : TimerTurn(c) /\ playersSubscriptionStart(c)
  \/ \E c \in Clients : \E raw \in TimerWords(c) : Calm /\ submitWordFetchRound(c, raw)
  \/ \E c \in Clients : TimerTurn(c) /\ OneWordEach /\ submitWordCheck(c)
  \/ \E c \in Clients : TimerTurn(c) /\ RoundsLeft(c) /\ wordsSubscriptionRpc(c)
  \/ Calm /\ timerInterval(1)

SpecTimer == InitTimer /\ [][NextTimer]_vars

\* What a client does by itself, but for the handling of the events of
\* table words.
ReactsButWords(c) ==
  \/ playersSubscriptionFetch(c)
  \/ playersSubscriptionLobby(c)
  \/ lobbySubscription(c)
  \/ wordsSubscriptionFinish(c)
  \/ RoundsLeft(c) /\ wordsSubscriptionAdvance(c)
  \/ wordsSubscriptionReset(c)
  \/ RoundsLeft(c) /\ wordsSubscriptionRpc(c)
  \/ WordsLeft /\ submitWordCheck(c)
  \/ submitWordUpdate(c)

\* Scheduling: client 1 is arbitrarily slow; the other clients handle what
\* they receive at once, except that the events of table words may reach them
\* late.
WordsLate == \A d \in Clients \ {1} : ~ENABLED ReactsButWords(d)

LateTurn(c) == c = 1 => WordsLate

\* What the handlers of client c do in a game without departure or timer.
Resolves(c) ==
  \/ Handlers(c)
  \/ WordsLeft /\ submitWordCheck(c)
  \/ wordsSubscriptionFinish(c)
  \/ RoundsLeft(c) /\ wordsSubscriptionAdvance(c)
  \/ wordsSubscriptionReset(c)
  \/ RoundsLeft(c) /\ wordsSubscriptionRpc(c)

\* Either version, player 1 types "a" and player 2 types "b"; no departure,
\* no timer.
NextFair ==
  \/ \E c \in Clients : LateTurn(c) /\ Resolves(c)
  \/ \E c \in Clients : WordsLate /\ WordsLeft /\ submitWordDirect(c, OwnWord(c))
  \/ \E c \in Clients : WordsLate /\ submitWordFetchRound(c, OwnWord(c))

\* Every change notification is delivered and every handler that was started
\* runs to its end, for the slow client too; nothing obliges a player to
\* type
\* (every step of a handler changes one of the variables of handling).
handling == <<evP, evW, lq, ph, wh, sw>>

Fairness == \A c \in Clients : WF_handling(LateTurn(c) /\ Resolves(c))

SpecFair == InitPlaying /\ [][NextFair]_vars /\ Fairness

\* The waiting room with two visitors at the join form: a player may press
\* Exit, each visitor types the code of the lobby and presses Join; the
\* handlers and the two halves of handleJoin interleave freely.
NextDoor ==
  \/ \E c \in Clients : playersSubscriptionFetch(c)
  \/ \E c \in Clients : playersSubscriptionLobby(c)
  \/ \E c \in Clients : handleExit(c)
  \/ \E v \in Visitors : \E lobbyCode \in {"lobby", "LOBBY"} : handleJoin(v, lobbyCode)
  \/ \E v \in Visitors : handleJoinInsert(v)

SpecDoor == Init /\ [][NextDoor]_vars

\* The start of a timed game of part_002 and its first round, in which every
\* player types "a": as NextStart, and the countdown of a client may run out
\* at any time.
NextTimeout ==
  \/ \E c \in Clients : Handlers(c)
  \/ \E c \in Clients : Settled /\ handleReadyToStart(c)
  \/ \E c \in Clients : playersSubscriptionStart(c)
  \/ \E c \in Clients : Calm /\ submitWordFetchRound(c, <<"a">>)
  \/ \E c \in Clients : OneWordEach /\ submitWordCheck(c)
  \/ \E c \in Clients : RoundsLeft(c) /\ wordsSubscriptionRpc(c)
  \/ \E c \in Clients : endGameDueToTimer(c)

SpecTimeout == InitTimer /\ [][NextTimeout]_vars

\* Two players that typed the same name: neither CreateLobby.handleCreate
\* nor JoinLobby.handleJoin compares the name with the names in the lobby.
Namesakes == [ c \in Clients |-> "ann" ]

\* Init for a lobby created and joined under the same name.
InitNamesakes ==
  /\ build \in {"direct", "rpc"}
  /\ nickname = Namesakes
  /\ \E timer \in IF build = "rpc" THEN BOOLEAN ELSE {FALSE}, roundLimit \in RoundLimits :
       lobby = [ NewLobbyRow(Cardinality(Clients), timer) EXCEPT !.round_limit = {roundLimit} ]
  /\ players = [ c \in Clients |-> NewPlayerRow(Nickname(c)) ]
  /\ words = EmptyBag
  /\ succ = << >>
  /\ succPlayers = << >>
  /\ ClientsInSync(lobby, players, "waiting")
  /\ NoVisitor

\* The session of the namesakes, from the waiting room to the rematch.
SpecNamesakes == InitNamesakes /\ [][NextSession]_vars

-----------------------------------------------------------------------------
(* Claims *)

\* A resolution of round N that client c has in flight although the round
\* advance from N was already applied by another attempt.
LostRace(c) ==
  \/ wh[c].pc \in {"advance", "rpc"} /\ lobby.current_round # wh[c].round
  \/ wh[c].pc = "reset" /\ ~wh[c].took

\* C1: of the K clients that handle "every participant has submitted for
\* round N and the words differ" exactly one advance takes effect: a step of
\* any other attempt changes neither the lobby row nor the players rows.
C1_OneAdvanceTakesEffect ==
  [][ \A c \in Clients :
        (LostRace(c) /\ wh'[c] # wh[c]) => UNCHANGED <<lobby, players>> ]_vars

\* C2: the stored current round never decreases from one state to the next.
C2_RoundNeverDecreases ==
  [][ lobby'.current_round >= lobby.current_round ]_vars

\* C3: when every player wants a rematch, exactly one successor lobby is
\* created, however many clients evaluate the condition.
C3_OneSuccessor ==
  Cardinality(DOMAIN succ) <= 1

\* C4: once new_lobby_code of the lobby is set, no later write changes it.
C4_NewLobbyCodeWrittenOnce ==
  [][ lobby.new_lobby_code # Null =>
        lobby'.new_lobby_code = lobby.new_lobby_code ]_vars

StatusRank(status) ==
  IF status = "waiting" THEN 0 ELSE IF status = "playing" THEN 1 ELSE 2

\* C5: the game status only moves forward, waiting -> playing -> finished;
\* a finished lobby is never set back to waiting or playing.
C5_StatusMovesForward ==
  [][ StatusRank(lobby'.game_status) >= StatusRank(lobby.game_status) ]_vars

\* C6: a session finished with a win recorded has, in the winning round, a
\* submission of every participant, and all submissions of that round carry
\* the same normalized word.
C6_WinMeansEveryoneMatched ==
  (lobby.game_status = "finished" /\ lobby.winner # Null) =>
    LET crw == currentRoundWords(words, lobby.rounds_taken) IN
      /\ \A p \in DOMAIN players : \E w \in DOMAIN crw : w.player_id = p
      /\ \A w1, w2 \in DOMAIN crw : normalizedWord(w1.word) = normalizedWord(w2.word)

\* C7: the normalized words stored for one participant in different rounds
\* are pairwise distinct.
C7_NoOwnWordTwice ==
  \A w1, w2 \in DOMAIN words :
    (w1.player_id = w2.player_id /\ w1.round # w2.round) =>
      normalizedWord(w1.word) # normalizedWord(w2.word)

\* C8: no normalized word is stored in two different rounds of the session,
\* whoever submitted it.
C8_NoWordInTwoRounds ==
  \A w1, w2 \in DOMAIN words :
    w1.round # w2.round => normalizedWord(w1.word) # normalizedWord(w2.word)

\* C9: a submitWord call that ends with the "word already used" toast leaves
\* the store as it was: no words row written, no players row and no field of
\* the lobby row changed.
C9_RejectChangesNothing ==
  [][ \A c \in Clients :
        (sw'[c] # sw[c] /\ sw'[c].pc = "idle" /\ sw'[c].toast = "used")
          => UNCHANGED <<lobby, players, words>> ]_vars

\* C9 witness: a submission was rejected while words were stored.
C9_Witness ==
  \E c \in Clients : sw[c].pc = "idle" /\ sw[c].toast = "used" /\ words # EmptyBag

\* Both participants of a session for two have a submission in the current
\* round and all submissions of that round carry the same normalized word.
RoundMatched ==
  LET crw == currentRoundWords(words, lobby.current_round) IN
    /\ lobby.max_players = 2
    /\ Cardinality(DOMAIN players) = 2
    /\ lobby.game_status = "playing"
    /\ \A p \in DOMAIN players : \E w \in DOMAIN crw : w.player_id = p
    /\ \A w1, w2 \in DOMAIN crw : normalizedWord(w1.word) = normalizedWord(w2.word)

AllSubmitted(r) ==
  \A p \in DOMAIN players : \E w \in DOMAIN words : w.round = r /\ w.player_id = p

\* The words rows of round r do not all carry the same normalized word.
WordsDiffer(r) ==
  \E w1, w2 \in DOMAIN currentRoundWords(words, r) :
    normalizedWord(w1.word) # normalizedWord(w2.word)

\* C11: a round in which every participant has submitted and the words are
\* not all equal leads to the next round with the status still playing: the
\* session is never finished in such a round.
C11_DifferingRoundAdvances ==
  ~ ( /\ lobby.game_status = "finished"
      /\ DOMAIN players = Clients
      /\ AllSubmitted(lobby.current_round)
      /\ WordsDiffer(lobby.current_round) )

\* C12: a client that handles the deletion of a players row while the stored
\* status is not waiting raises playerLeft.
C12_DepartureRaisesPlayerLeft ==
  [][ \A c \in Clients :
        ( /\ ph[c].pc = "idle" /\ ph'[c].pc = "lobby"
          /\ lobby.game_status # "waiting"
          /\ Cardinality(DOMAIN players) < Cardinality(DOMAIN cPlayers[c]) )
        => playerLeft'[c] ]_vars

\* C13: once a participant has left a session that was being played, its
\* round number, status, winner and rounds_taken never change again.
C13_AbandonedSessionIsFrozen ==
  [][ DOMAIN players # Clients =>
        /\ lobby'.current_round = lobby.current_round
        /\ lobby'.game_status = lobby.game_status
        /\ lobby'.winner = lobby.winner
        /\ lobby'.rounds_taken = lobby.rounds_taken ]_vars

\* C14: a session with the timer enabled that is finished without a winner
\* (its countdown ran out before a win) stays finished, and its winner and
\* rounds_taken stay unset.
C14_TimerEndsWithoutWinner ==
  [][ (lobby.use_timer /\ lobby.game_status = "finished" /\ lobby.winner = Null) =>
        /\ lobby'.game_status = "finished"
        /\ lobby'.winner = Null
        /\ lobby'.rounds_taken = Null ]_vars

\* C15: a countdown that runs out on a client when the stored status is
\* already finished leaves the lobby row as it was.
C15_LateTimerChangesNothing ==
  [][ (lobby.game_status = "finished" /\ \E c \in Clients : endGameDueToTimer(c))
        => lobby' = lobby ]_vars

\* C15 witness: a session finished by a win, and a client that was sent the
\* same finished row twice: the second write was a countdown running out.
C15_Witness ==
  /\ lobby.use_timer
  /\ lobby.game_status = "finished"
  /\ lobby.winner # Null
  /\ \E c \in Clients :
       /\ Len(lq[c]) >= 2
       /\ lq[c][Len(lq[c])] = lq[c][Len(lq[c]) - 1]
       /\ lq[c][Len(lq[c])].game_status = "finished"

\* The round limit a stored value stands for: NULL and 0 both mean no limit
\* (the empty set).
LimitOf(round_limit) == round_limit \ {0}

\* C18: a lobby inserted by createNewLobbyForEveryone has the capacity, the
\* timer flag and the round limit of the lobby it succeeds, round 1 and
\* status waiting.
C18_SuccessorKeepsConfiguration ==
  \A code \in DOMAIN succ :
    /\ succ[code].max_players = lobby.max_players
    /\ succ[code].use_timer = lobby.use_timer
    /\ LimitOf(succ[code].round_limit) = LimitOf(lobby.round_limit)
    /\ succ[code].current_round = 1
    /\ succ[code].game_status = "waiting"

\* C16: new_lobby_code is written only with the code of a lobby whose row and
\* players rows are already in the store.
C16_SuccessorCodeWrittenLast ==
  [][ lobby'.new_lobby_code # lobby.new_lobby_code =>
        /\ lobby'.new_lobby_code \in DOMAIN succ
        /\ lobby'.new_lobby_code \in DOMAIN succPlayers
        /\ Len(succPlayers[lobby'.new_lobby_code]) >= 1 ]_vars

\* C16 witness: a successor code is visible, and a second mint has given up
\* on a code that was taken.
C16_Witness ==
  /\ lobby.new_lobby_code # Null
  /\ Len(succPlayers[lobby.new_lobby_code]) = 2
  /\ DOMAIN succ = {lobby.new_lobby_code}

SameNicknames(seq, rows) ==
  \A n \in { seq[i] : i \in DOMAIN seq } \cup { rows[p].nickname : p \in DOMAIN rows } :
    Cardinality({ i \in DOMAIN seq : seq[i] = n })
      = Cardinality({ p \in DOMAIN rows : rows[p].nickname = n })

\* C19: the players rows inserted for a successor are, name by name, the
\* players rows of the old lobby in the store at that time.
C19_SuccessorCopiesStoredPlayers ==
  [][ \A code \in DOMAIN succPlayers' \ DOMAIN succPlayers :
        SameNicknames(succPlayers'[code], players) ]_vars

\* C20: a handleJoin on a code whose lobby has max_players players rows ends
\* with 'Lobby is full', one on a code without a lobby ends with 'Lobby not
\* found'; neither creates a players row, at that step or later.
C20_FullAndNotFoundCreateNoPlayer ==
  [][ /\ \A lobbyCode \in EnteredCodes \ {""} :
           handleJoin(Joiner, lobbyCode) =>
             /\ ( /\ toUpperCase(lobbyCode) = LobbyCode
                  /\ Cardinality(DOMAIN players) = lobby.max_players )
                  => jn'[Joiner].toast = "full"
             /\ ( /\ toUpperCase(lobbyCode) # LobbyCode
                  /\ toUpperCase(lobbyCode) \notin DOMAIN succ )
                  => jn'[Joiner].toast = "notfound"
             /\ players' = players
             /\ succPlayers' = succPlayers
      /\ jn[Joiner].toast \in {"full", "notfound"} =>
           /\ jn[Joiner].pc = "idle"
           /\ Joiner \notin DOMAIN players
           /\ Joiner \notin DOMAIN players' ]_vars

\* C20 witness: the visitor typed the code of a lobby with both players rows
\* and was told the lobby is full; no players row is the visitor's.
C20_Witness ==
  /\ jn[Joiner].toast = "full"
  /\ jn[Joiner].code = LobbyCode
  /\ Cardinality(DOMAIN players) = lobby.max_players
  /\ Joiner \notin DOMAIN players

\* C21: in a lobby created with a round limit above 0, the stored round never
\* exceeds the limit.
C21_RoundWithinLimit ==
  \A limit \in lobby.round_limit \ {0} : lobby.current_round <= limit

\* C22: a winner is stored only for a lobby of exactly two players.
C22_WinnerOnlyForTwo ==
  lobby.winner # Null => Cardinality(DOMAIN players) = 2

\* C23: the winner of the lobby is set only while its status is finished.
C23_WinnerOnlyWhenFinished ==
  lobby.winner # Null => lobby.game_status = "finished"

\* C25: of the writes of 'playing' that the clients send for one lobby, the
\* one that finds it waiting changes the status; every other one leaves the
\* lobby row as it is.
C25_StartAppliedOnce ==
  [][ \A c \in Clients :
        playersSubscriptionStart(c) =>
          IF lobby.game_status = "waiting"
            THEN lobby' = [ lobby EXCEPT !.game_status = "playing" ]
            ELSE lobby' = lobby ]_vars

\* C26: a write of 'playing' that reaches a lobby already playing or finished
\* changes neither its status, its round, its winner nor its rounds_taken.
C26_LateStartIsNoOp ==
  [][ ( /\ lobby.game_status \in {"playing", "finished"}
        /\ \E c \in Clients : ph[c].pc = "start" /\ ph'[c].pc = "idle" )
      => /\ lobby'.game_status = lobby.game_status
         /\ lobby'.current_round = lobby.current_round
         /\ lobby'.winner = lobby.winner
         /\ lobby'.rounds_taken = lobby.rounds_taken ]_vars

\* C24: the words table holds at most one row per player and round.
C24_OneWordPerPlayerAndRound ==
  \A w1, w2 \in DOMAIN words :
    (w1.player_id = w2.player_id /\ w1.round = w2.round) =>
      (w1 = w2 /\ words[w1] = 1)

\* The words rows stored for the round the lobby is in are fewer than the
\* players rows of the lobby.
RoundIncomplete ==
  BagCardinality(currentRoundWords(words, lobby.current_round))
    < Cardinality(DOMAIN players)

\* C27: while the stored round is incomplete, no resolution of a client
\* changes the lobby row, and no reset of an advance that another client had
\* already applied clears a player's ready flag.
C27_NoResolutionWhileIncomplete ==
  [][ RoundIncomplete =>
        \A c \in Clients :
          /\ ( wh[c].pc \in {"finish", "advance", "rpc"} /\ wh'[c] # wh[c] )
               => lobby' = lobby
          /\ ( wh[c].pc = "reset" /\ ~wh[c].took /\ wh'[c] # wh[c] )
               => \A p \in DOMAIN players : players'[p].ready = players[p].ready ]_vars

\* The words rows that a step inserts.
InsertedWords ==
  { w \in DOMAIN words' : w \notin DOMAIN words \/ words'[w] > words[w] }

\* C28: a resolution whose round is not the stored round leaves the lobby row
\* as it is, and a words row is inserted with the round of the store: the
\* stored round at the insert, or the round the submitWord has just read.
C28_RoundReadAtDecisionTime ==
  [][ /\ \A c \in Clients :
           ( /\ wh[c].pc \in {"finish", "advance", "rpc"}
             /\ wh[c].round # lobby.current_round
             /\ wh'[c] # wh[c] ) => lobby' = lobby
      /\ \A w \in InsertedWords :
           \/ w.round = lobby.current_round
           \/ \E c \in Clients : sw[c].pc = "check" /\ w.round = sw[c].round ]_vars

\* C29: in every state a player whose ready flag is set has a words row of
\* the round the lobby is in.
C29_FlagsClearedWithTheAdvance ==
  \A p \in DOMAIN players :
    players[p].ready =>
      \E w \in DOMAIN words : w.player_id = p /\ w.round = lobby.current_round

\* C30: no client sets playerLeft while the stored status of the lobby is
\* waiting.
C30_NoPlayerLeftWhileWaiting ==
  [][ \A c \in Clients :
        (~playerLeft[c] /\ playerLeft'[c]) => lobby.game_status # "waiting" ]_vars

\* The interval of client c has run out at this step: it is cleared while the
\* component stays mounted and its gameStatus is the same.
TimerFired(c) ==
  /\ remainingTime[c] # {}
  /\ remainingTime'[c] = {}
  /\ cStatus'[c] = cStatus[c]
  /\ loc'[c] = loc[c]

\* Client c has received every change of the lobby row, and one of them was
\* the win that finished the session.
ObservedWin(c) == Subscribed(c) /\ lobby.winner # Null /\ lq[c] = <<>>

\* C31: in a timed game a client's countdown starts again from TimerDuration
\* whenever the client sees the round advance, it is cancelled when the client
\* sees the session finished, and no client ends the game by its timer while
\* its gameStatus is 'finished' or after it has seen the session finished by a
\* win.
C31_TimerRestartsAndIsCancelled ==
  [][ \A c \in Clients :
        /\ ( cTimer[c] /\ cRound'[c] # cRound[c] /\ cStatus'[c] = "playing" )
             => remainingTime'[c] = {TimerDuration}
        /\ cStatus'[c] = "finished" => remainingTime'[c] = {}
        /\ TimerFired(c) => cStatus[c] # "finished" /\ ~ObservedWin(c) ]_vars

\* C32: the step by which a player leaves deletes that player's row and no
\* other, and leaves the lobby row as it was: game_status, current_round,
\* winner, rounds_taken and new_lobby_code are the same after the step.
C32_LeaveChangesNoLobbyField ==
  [][ \A c \in Clients :
        ( loc[c] = LobbyCode /\ loc'[c] = "menu" ) =>
          /\ DOMAIN players' = DOMAIN players \ {c}
          /\ lobby'.game_status = lobby.game_status
          /\ lobby'.current_round = lobby.current_round
          /\ lobby'.winner = lobby.winner
          /\ lobby'.rounds_taken = lobby.rounds_taken
          /\ lobby'.new_lobby_code = lobby.new_lobby_code
          /\ lobby' = lobby ]_vars

\* C32 witness: a player has left the game while it is being played; the
\* other player's row is still there.
C32_Witness ==
  \E c \in Clients :
    /\ loc[c] = "menu"
    /\ c \notin DOMAIN players
    /\ DOMAIN players # {}
    /\ lobby.game_status = "playing"

\* No client has a change notification to receive, a handler in flight or a
\* submitWord in flight.
NothingPending ==
  \A c \in Clients :
    /\ ~evP[c] /\ ~evW[c] /\ lq[c] = <<>>
    /\ ph[c].pc = "idle" /\ wh[c].pc = "idle" /\ sw[c].pc = "idle"

\* C33: with every notification delivered, no departure and no timer, the
\* game never rests in a round for which every player has a words row.  A
\* state of the game being played in which the current round has all its
\* words, no notification and no handler is pending, no handler step is
\* enabled and no player can type is a state the fair behaviours stay in for
\* ever: the round is never resolved.
C33_NoRoundLeftUnresolved ==
  ~ ( /\ lobby.game_status = "playing"
      /\ AllSubmitted(lobby.current_round)
      /\ NothingPending
      /\ \A c \in Clients : ~ENABLED Resolves(c)
      /\ \A c \in Clients : ~CanSubmit(c) )

\* C34: a lobby never has more players rows than max_players, also when
\* several handleJoin calls run at the same time on a lobby with one free
\* place.
C34_NeverOverCapacity == Cardinality(DOMAIN players) <= lobby.max_players

\* C35: the write that makes the game 'playing' is applied only when the
\* lobby has max_players players rows and every one of them has
\* ready_to_start: the game never starts with fewer players than max_players,
\* also when a player leaves between the handler's reads and its write.
C35_StartsOnlyWhenFullAndReady ==
  [][ ( lobby.game_status # "playing" /\ lobby'.game_status = "playing" ) =>
        /\ Cardinality(DOMAIN players') = lobby'.max_players
        /\ \A p \in DOMAIN players' : players'[p].ready_to_start ]_vars

\* C36: once winner is set no later write changes it: when both clients of
\* a game of two resolve the same winning round, winner is the same after
\* the second resolution as after the first.
C36_WinnerWrittenOnce ==
  [][ lobby.winner # Null => lobby'.winner = lobby.winner ]_vars

\* C37: a session that the timer has finished without a winner never gets a
\* winner: as long as the notification of the timed-out row (finished, no
\* winner) is on its way to a client of a game of two, the stored row has no
\* winner (winner and rounds_taken are written together).
C37_NoWinAfterTimeout ==
  ( /\ lobby.use_timer
    /\ DOMAIN players = Clients
    /\ \E c \in Clients : \E i \in DOMAIN lq[c] :
         lq[c][i].game_status = "finished" /\ lq[c][i].winner = Null )
    => lobby.winner = Null

\* C38: no words row is written for a session whose stored status is not
\* 'playing': every step that adds a row to words starts from a stored
\* lobby row with game_status 'playing', also when the submitting client's
\* cached status is still 'playing' after a timer has finished the session.
C38_NoSubmissionUnlessPlaying ==
  [][ BagCardinality(words') > BagCardinality(words) =>
        lobby.game_status = "playing" ]_vars

\* C39: every participant is moved to the successor session: when the
\* timeout that follows a published successor runs for a client that is in
\* the old session, and the successor holds a players row with the client's
\* name, the client does not stay in the old session; also when two
\* participants have the same name.
C39_EveryParticipantMoved ==
  [][ \A c \in Clients :
        ( /\ fl[c] # Null
          /\ fl'[c] = Null
          /\ Subscribed(c)
          /\ fl[c] \in DOMAIN succPlayers
          /\ \E i \in DOMAIN succPlayers[fl[c]] : succPlayers[fl[c]][i] = Nickname(c) )
        => loc'[c] # LobbyCode ]_vars

=============================================================================
